---- MODULE Spec2Model ----
(***************************************************************************)
(* Model of the legal-qa-system pipeline: the hierarchical chunker of      *)
(* clean_and_split.py and the alpha tuner of retriever.py.                 *)
(*                                                                         *)
(* Text representation.  A normalized text is a sequence of lines without  *)
(* blank lines; a line starts, or not, with one structural marker          *)
(* ("Chương I", "Mục 1", "Điều 5.", "1. ", "a) ", "- ") followed by        *)
(* words.  A text value is a sequence of runs, one run per line fragment:  *)
(*   [ln, kind, no, lo, hi]                                                *)
(* ln is the line number in the normalized document, kind/no the marker of *)
(* that line, and lo..hi the whitespace-delimited tokens of the line that  *)
(* the fragment holds: token 0 is the marker itself, tokens 1..hi are the  *)
(* words after it.  A token is identified by <<ln, index>>, so slicing,    *)
(* stripping a marker and windowing are computed on token identities.      *)
(***************************************************************************)
EXTENDS Integers, Sequences, FiniteSets, TLC

\* ---------------------------------------------------------------- bounds
MaxLines == 4
LongLine == 1300
MaxTokens == 7
MaxWin == 3
MaxCalls == 2
MaxQueryLen == 4
MaxK == 3
MaxLog == 3
MaxObjs == 3
MaxSrcs == 3
MaxApply == 2
MaxMsgs == 4

\* ------------------------------------------------------- program constants
MAX_TOKENS_LEAF == 1200
WIN_TOK == 800
OVERLAP_TOK == 200

\* None of Python, for the optional integer fields
None == -1

VARIABLES raw, path, items, prevItems, nruns, call, win, tlog, ret, gen, chat, util

vars ==
  <<raw, path, items, prevItems, nruns, call, win, tlog, ret, gen, chat, util>>

Min(a, b) == IF a <= b THEN a ELSE b
Max(a, b) == IF a >= b THEN a ELSE b

RECURSIVE Concat(_)
Concat(ss) == IF ss = <<>> THEN <<>> ELSE Head(ss) \o Concat(Tail(ss))

\* ------------------------------------------------------------ input lines
MarkerKinds == {"chapter", "section", "article", "clause", "point", "bullet"}

PointLetters == {"a", "b"}

\* Path(path).stem of the files of INPUTS
Stems == {"168-2024-ND-CP", "luatduongbo"}

\* the lines a raw document is made of
RawLines ==
       {[kind |-> "blank", no |-> 0, letter |-> "", nw |-> 0]}
  \cup {[kind |-> "chapter", no |-> 1, letter |-> "", nw |-> 1]}
  \cup {[kind |-> "section", no |-> 1, letter |-> "", nw |-> 1]}
  \cup {[kind |-> "article", no |-> n, letter |-> "", nw |-> 1] : n \in 1..2}
  \cup {[kind |-> "clause", no |-> n, letter |-> "", nw |-> 1] : n \in 1..2}
  \cup {[kind |-> "point", no |-> 0, letter |-> l, nw |-> 1] : l \in PointLetters}
  \cup {[kind |-> "bullet", no |-> 0, letter |-> "", nw |-> 1]}
  \cup {[kind |-> "text", no |-> 0, letter |-> "", nw |-> w] : w \in {1, LongLine}}

RawDocs == UNION {[1..n -> RawLines] : n \in 0..MaxLines}

\* ------------------------------------------------------------------ UTILS
RunOfLine(l, i) ==
  [ln |-> i, kind |-> l.kind, no |-> l.no, letter |-> l.letter,
   lo |-> IF l.kind \in MarkerKinds THEN 0 ELSE 1, hi |-> l.nw]

\* normalize_text: line endings and blank runs collapse, so the result has
\* no blank line and no leading or trailing whitespace
normalize_text(s) ==
  LET kept == SelectSeq(s, LAMBDA l : l.kind # "blank")
  IN  [i \in 1..Len(kept) |-> RunOfLine(kept[i], i)]

RunLen(r) == r.hi - r.lo + 1

RECURSIVE token_count(_)
token_count(text) ==
  IF text = <<>> THEN 0 ELSE RunLen(Head(text)) + token_count(Tail(text))

\* the tokens at word positions a .. b-1 (0-based) of a text, whitespace
\* between them kept and whitespace around them stripped
RECURSIVE WordSlice(_, _, _)
WordSlice(text, a, b) ==
  IF text = <<>> \/ b <= 0 THEN <<>>
  ELSE LET r == Head(text)
           L == RunLen(r)
       IN  IF a >= L THEN WordSlice(Tail(text), a - L, b - L)
           ELSE <<[r EXCEPT !.lo = r.lo + Max(a, 0),
                            !.hi = r.lo + Min(L, b) - 1]>>
                \o WordSlice(Tail(text), 0, b - L)

RECURSIVE WindowLoop(_, _, _, _, _)
WindowLoop(text, n, i, win_tokens, step) ==
  IF i >= n THEN <<>>
  ELSE LET j == Min(i + win_tokens, n)
           chunk == WordSlice(text, i, j)
           out == IF chunk # <<>> THEN <<chunk>> ELSE <<>>
       IN  IF j >= n THEN out
           ELSE out \o WindowLoop(text, n, i + step, win_tokens, step)

\* sliding_windows_by_tokens stepping by the window size (overlap forgotten)
sliding_windows_no_overlap(text, win_tokens, overlap_tokens) ==
  LET n == token_count(text)
  IN  IF n = 0 THEN <<>> ELSE WindowLoop(text, n, 0, win_tokens, win_tokens)

sliding_windows_by_tokens(text, win_tokens, overlap_tokens) ==
  LET n == token_count(text)
      step == Max(1, win_tokens - overlap_tokens)
  IN  IF n = 0 THEN <<>> ELSE WindowLoop(text, n, 0, win_tokens, step)

\* a regex with a trailing \s+ (RE_CLAUSE, RE_POINT, RE_BULLET) needs
\* whitespace after the marker: words on the same line, or a following line
\* (a text is stripped, so nothing follows its last line)
NeedsSpace == {"clause", "point", "bullet"}

\* the regex of `kind` matches at the start of line i of the text
IsMarker(text, i, kind) ==
  /\ text[i].kind = kind
  /\ text[i].lo = 0
  /\ kind \in NeedsSpace => (text[i].hi >= 1 \/ i < Len(text))

\* regex.finditer(text): the lines where the regex matches, in order
finditer(kind, text) ==
  SelectSeq([i \in 1..Len(text) |-> i], LAMBDA i : IsMarker(text, i, kind))

\* re.sub(r'^<marker>\s+', '', text): the marker of the first line goes,
\* when the regex matches there
StripMarker(text, kind) ==
  IF text # <<>> /\ IsMarker(text, 1, kind)
  THEN IF text[1].hi >= 1
       THEN <<[text[1] EXCEPT !.lo = 1]>> \o Tail(text)
       ELSE Tail(text)
  ELSE text

\* blocks are [s, e, m]: lines s..e of the text, m the matching line or 0
find_blocks(kind, text) ==
  LET ms == finditer(kind, text)
  IN  IF ms = <<>> THEN <<[s |-> 1, e |-> Len(text), m |-> 0]>>
      ELSE [i \in 1..Len(ms) |->
              [s |-> ms[i],
               e |-> IF i + 1 <= Len(ms) THEN ms[i + 1] - 1 ELSE Len(text),
               m |-> ms[i]]]

\* ---------------------------------------------------------- PARSERS (TREE)
\* the label of a heading line; "" of the source is 0
LabelOf(text, m) == IF m = 0 THEN 0 ELSE text[m].no

ArticlesOfSection(se_block, chapter, section) ==
  LET art_ms == finditer("article", se_block)
  IN  [i \in 1..Len(art_ms) |->
         LET a_s == art_ms[i]
             a_e == IF i + 1 <= Len(art_ms) THEN art_ms[i + 1] - 1
                    ELSE Len(se_block)
             block == SubSeq(se_block, a_s, a_e)
         IN  [chapter |-> chapter,
              section |-> section,
              article_no |-> se_block[a_s].no,
              head |-> se_block[a_s].ln,
              article_text |-> Tail(block)]]

ArticlesOfChapter(ch_block, chapter) ==
  LET sections == find_blocks("section", ch_block)
  IN  Concat([i \in 1..Len(sections) |->
         ArticlesOfSection(SubSeq(ch_block, sections[i].s, sections[i].e),
                           chapter, LabelOf(ch_block, sections[i].m))])

parse_articles(doc_text) ==
  LET m_start == finditer("chapter", doc_text)
      doc == IF m_start # <<>>
             THEN SubSeq(doc_text, m_start[1], Len(doc_text))
             ELSE doc_text
      chapters == find_blocks("chapter", doc)
  IN  Concat([i \in 1..Len(chapters) |->
         ArticlesOfChapter(SubSeq(doc, chapters[i].s, chapters[i].e),
                           LabelOf(doc, chapters[i].m))])

\* split_clauses losing the last clause (range(len(ms) - 1))
split_clauses_short(article_text) ==
  LET ms == finditer("clause", article_text)
  IN  IF ms = <<>> THEN <<[no |-> None, text |-> article_text]>>
      ELSE [i \in 1..(Len(ms) - 1) |->
              [no |-> article_text[ms[i]].no,
               text |-> SubSeq(article_text, ms[i], ms[i + 1] - 1)]]

\* a clause is [no, text]; no = None for the text before the first clause
split_clauses(article_text) ==
  LET ms == finditer("clause", article_text)
      pre == IF ms # <<>> /\ ms[1] > 1
             THEN <<[no |-> None, text |-> SubSeq(article_text, 1, ms[1] - 1)]>>
             ELSE <<>>
  IN  IF ms = <<>> THEN <<[no |-> None, text |-> article_text]>>
      ELSE pre \o
           [i \in 1..Len(ms) |->
              [no |-> article_text[ms[i]].no,
               text |-> SubSeq(article_text, ms[i],
                               IF i + 1 <= Len(ms) THEN ms[i + 1] - 1
                               ELSE Len(article_text))]]

\* a point is [letter, text]
split_points(clause_text0) ==
  LET clause_text == StripMarker(clause_text0, "clause")
      ms == finditer("point", clause_text)
  IN  [i \in 1..Len(ms) |->
         LET pt == SubSeq(clause_text, ms[i],
                          IF i + 1 <= Len(ms) THEN ms[i + 1] - 1
                          ELSE Len(clause_text))
         IN  [letter |-> clause_text[ms[i]].letter,
              text |-> StripMarker(pt, "point")]]

split_bullets(text) ==
  LET ms == finditer("bullet", text)
  IN  [i \in 1..Len(ms) |->
         StripMarker(SubSeq(text, ms[i],
                            IF i + 1 <= Len(ms) THEN ms[i + 1] - 1
                            ELSE Len(text)),
                     "bullet")]

\* ------------------------------------------------------------ identifiers
\* An id string "<stem>_D5_K1_a_b2_w1" is the sequence of its "_"-separated
\* components, each a <<tag, number>> pair; no component holds a "_", so two
\* id strings are equal exactly when their component sequences are.
ArticleId(stem, article_no) == <<<<stem, 0>>, <<"D", article_no>>>>

ClauseId(article_id, clause_no) ==
  IF clause_no # None THEN Append(article_id, <<"K", clause_no>>)
  ELSE Append(article_id, <<"PRE", 0>>)

PointId(clause_id, letter) == Append(clause_id, <<letter, 0>>)

BaseId(stem, article_no, clause_no, point_letter, bullet_idx) ==
  ArticleId(stem, article_no)
    \o (IF clause_no # None THEN <<<<"K", clause_no>>>> ELSE <<>>)
    \o (IF point_letter # "" THEN <<<<point_letter, 0>>>> ELSE <<>>)
    \o (IF bullet_idx # None THEN <<<<"b", bullet_idx>>>> ELSE <<>>)

\* ------------------------------------------------------------ EMIT LEAVES
LeafRecord(id, granularity, chapter, section, article_no, clause_no, point_letter, bullet_idx, text, parents_ids, window_seq) ==
  [id |-> id, granularity |-> granularity,
   chapter |-> chapter, section |-> section, article_no |-> article_no,
   clause_no |-> clause_no, point |-> point_letter, bullet_idx |-> bullet_idx,
   parents |-> parents_ids, text |-> text, embed_text |-> text,
   window_seq |-> window_seq]

\* emit_leaf windowing from the threshold on (>= for >)
emit_leaf_ge(its, stem, chapter, section, article_no, clause_no, point_letter, bullet_idx, text, parents_ids) ==
  LET base_id == BaseId(stem, article_no, clause_no, point_letter, bullet_idx)
  IN  IF token_count(text) >= MAX_TOKENS_LEAF
      THEN LET windows == sliding_windows_by_tokens(text, WIN_TOK, OVERLAP_TOK)
           IN  its \o [i \in 1..Len(windows) |->
                  LeafRecord(Append(base_id, <<"w", i>>), "leaf_window",
                             chapter, section, article_no, clause_no,
                             point_letter, bullet_idx, windows[i],
                             parents_ids, i)]
      ELSE Append(its,
                  LeafRecord(base_id, "leaf", chapter, section, article_no,
                             clause_no, point_letter, bullet_idx, text,
                             parents_ids, None))

\* emit_leaf numbering its windows by their position in the output list
emit_leaf_counter(its, stem, chapter, section, article_no, clause_no, point_letter, bullet_idx, text, parents_ids) ==
  LET base_id == BaseId(stem, article_no, clause_no, point_letter, bullet_idx)
  IN  IF token_count(text) > MAX_TOKENS_LEAF
      THEN LET windows == sliding_windows_by_tokens(text, WIN_TOK, OVERLAP_TOK)
           IN  its \o [i \in 1..Len(windows) |->
                  LeafRecord(Append(base_id, <<"w", Len(its) + i>>),
                             "leaf_window",
                             chapter, section, article_no, clause_no,
                             point_letter, bullet_idx, windows[i],
                             parents_ids, i)]
      ELSE Append(its,
                  LeafRecord(base_id, "leaf", chapter, section, article_no,
                             clause_no, point_letter, bullet_idx, text,
                             parents_ids, None))

emit_leaf(its, stem, chapter, section, article_no, clause_no, point_letter, bullet_idx, text, parents_ids) ==
  LET base_id == BaseId(stem, article_no, clause_no, point_letter, bullet_idx)
  IN  IF token_count(text) > MAX_TOKENS_LEAF
      THEN LET windows == sliding_windows_by_tokens(text, WIN_TOK, OVERLAP_TOK)
           IN  its \o [i \in 1..Len(windows) |->
                  LeafRecord(Append(base_id, <<"w", i>>), "leaf_window",
                             chapter, section, article_no, clause_no,
                             point_letter, bullet_idx, windows[i],
                             parents_ids, i)]
      ELSE Append(its,
                  LeafRecord(base_id, "leaf", chapter, section, article_no,
                             clause_no, point_letter, bullet_idx, text,
                             parents_ids, None))

\* --------------------------------------------------------------- PIPELINE
NodeRecord(id, granularity, art, clause_no, point_letter, parents_ids, text) ==
  [id |-> id, granularity |-> granularity,
   chapter |-> art.chapter, section |-> art.section,
   article_no |-> art.article_no,
   clause_no |-> clause_no, point |-> point_letter, bullet_idx |-> None,
   parents |-> parents_ids, text |-> text, embed_text |-> <<>>,
   window_seq |-> None]

\* for bi, bt in enumerate(bullets, 1): emit_leaf(...)
RECURSIVE BulletLoop(_, _, _, _, _, _, _)
BulletLoop(its, stem, art, clause_no, letter, bullets, bi) ==
  IF bi > Len(bullets) THEN its
  ELSE LET article_id == ArticleId(stem, art.article_no)
           clause_id == ClauseId(article_id, clause_no)
           point_id == PointId(clause_id, letter)
       IN  BulletLoop(
             emit_leaf(its, stem, art.chapter, art.section, art.article_no,
                       clause_no, letter, bi, bullets[bi],
                       {point_id, clause_id, article_id}),
             stem, art, clause_no, letter, bullets, bi + 1)

\* PointLoop emitting the point's own leaf after its bullets as well
RECURSIVE PointLoop_also_leaf(_, _, _, _, _)
PointLoop_also_leaf(its, stem, art, clause_no, points) ==
  IF points = <<>> THEN its
  ELSE LET article_id == ArticleId(stem, art.article_no)
           clause_id == ClauseId(article_id, clause_no)
           letter == Head(points).letter
           ptext == Head(points).text
           point_id == PointId(clause_id, letter)
           withNode == Append(its,
                         NodeRecord(point_id, "point_node", art, clause_no,
                                    letter, {clause_id, article_id}, ptext))
           bullets == split_bullets(ptext)
           after ==
             emit_leaf(BulletLoop(withNode, stem, art, clause_no, letter,
                                  bullets, 1),
                       stem, art.chapter, art.section, art.article_no,
                       clause_no, letter, None, ptext, {clause_id, article_id})
       IN  PointLoop_also_leaf(after, stem, art, clause_no, Tail(points))

\* for letter, ptext in points: point_node, then its bullets or the point
RECURSIVE PointLoop(_, _, _, _, _)
PointLoop(its, stem, art, clause_no, points) ==
  IF points = <<>> THEN its
  ELSE LET article_id == ArticleId(stem, art.article_no)
           clause_id == ClauseId(article_id, clause_no)
           letter == Head(points).letter
           ptext == Head(points).text
           point_id == PointId(clause_id, letter)
           withNode == Append(its,
                         NodeRecord(point_id, "point_node", art, clause_no,
                                    letter, {clause_id, article_id}, ptext))
           bullets == split_bullets(ptext)
           after ==
             IF bullets # <<>>
             THEN BulletLoop(withNode, stem, art, clause_no, letter, bullets, 1)
             ELSE emit_leaf(withNode, stem, art.chapter, art.section,
                            art.article_no, clause_no, letter, None, ptext,
                            {clause_id, article_id})
       IN  PointLoop(after, stem, art, clause_no, Tail(points))

\* ClauseLoop emitting the preamble leaf without the clause_body.strip() test
RECURSIVE ClauseLoop_no_blank_test(_, _, _, _)
ClauseLoop_no_blank_test(its, stem, art, clauses) ==
  IF clauses = <<>> THEN its
  ELSE LET article_id == ArticleId(stem, art.article_no)
           clause_no == Head(clauses).no
           clause_body == Head(clauses).text
           clause_id == ClauseId(article_id, clause_no)
           withNode == Append(its,
                         NodeRecord(clause_id, "clause_node", art, clause_no,
                                    "", {article_id}, clause_body))
           points == split_points(clause_body)
           after ==
             IF points # <<>>
             THEN PointLoop(withNode, stem, art, clause_no, points)
             ELSE emit_leaf(withNode, stem, art.chapter, art.section,
                            art.article_no, clause_no, "", None,
                            clause_body, {article_id})
       IN  ClauseLoop_no_blank_test(after, stem, art, Tail(clauses))

\* for clause_no, clause_body in clauses: clause_node, then its points or
\* the clause
RECURSIVE ClauseLoop(_, _, _, _)
ClauseLoop(its, stem, art, clauses) ==
  IF clauses = <<>> THEN its
  ELSE LET article_id == ArticleId(stem, art.article_no)
           clause_no == Head(clauses).no
           clause_body == Head(clauses).text
           clause_id == ClauseId(article_id, clause_no)
           withNode == Append(its,
                         NodeRecord(clause_id, "clause_node", art, clause_no,
                                    "", {article_id}, clause_body))
           points == split_points(clause_body)
           after ==
             IF points # <<>>
             THEN PointLoop(withNode, stem, art, clause_no, points)
             ELSE IF clause_no # None \/ clause_body # <<>>
                  THEN emit_leaf(withNode, stem, art.chapter, art.section,
                                 art.article_no, clause_no, "", None,
                                 clause_body, {article_id})
                  ELSE withNode
       IN  ClauseLoop(after, stem, art, Tail(clauses))

\* for art in parse_articles(doc): article_root, then its clauses
RECURSIVE ArticleLoop(_, _, _)
ArticleLoop(its, stem, arts) ==
  IF arts = <<>> THEN its
  ELSE LET art == Head(arts)
           article_id == ArticleId(stem, art.article_no)
           withRoot == Append(its,
                         NodeRecord(article_id, "article_root", art, None, "",
                                    {}, art.article_text))
       IN  ArticleLoop(
             ClauseLoop(withRoot, stem, art, split_clauses(art.article_text)),
             stem, Tail(arts))

\* the records process_one writes for the file `stem` holding `rawtext`
process_one(stem, rawtext) ==
  ArticleLoop(<<>>, stem, parse_articles(normalize_text(rawtext)))

\* ----------------------------------------------------------- state machine
\* raw, path: the source file; items: the records written for it by the
\* last run; prevItems: those of the run before; nruns: runs so far.
\* call: the arguments of the last emit_leaf call made on its own;
\* win: the last sliding_windows_by_tokens call made on its own;
\* tlog: the tune_alpha_and_pool calls made so far, with their results.
\* ret: the last retrieve call; gen: the last generate_answer call;
\* chat: the session state of the chat front end;
\* util: the last call of a generator utility made on its own.
NoCall == [made |-> FALSE]

NoWin == [done |-> FALSE]

NoRet == [done |-> FALSE]

NoGen == [done |-> FALSE]

NoChat ==
  [messages |-> <<>>, show_welcome |-> TRUE, last |-> [handler |-> "none"]]

NoUtil == [fn |-> "none"]

Init ==
  /\ raw \in RawDocs
  /\ path = "luatduongbo"
  /\ items = <<>>
  /\ prevItems = <<>>
  /\ nruns = 0
  /\ call = NoCall
  /\ win = NoWin
  /\ tlog = <<>>
  /\ ret = NoRet
  /\ gen = NoGen
  /\ chat = NoChat
  /\ util = NoUtil

\* one run of the script's main loop body over the file (re-indexing
\* included: the output file is overwritten)
ProcessOne ==
  /\ nruns < 2
  /\ items' = process_one(path, raw)
  /\ prevItems' = items
  /\ nruns' = nruns + 1
  /\ UNCHANGED <<raw, path, call, win, tlog, ret, gen, chat, util>>

Next == ProcessOne

Spec == Init /\ [][Next]_vars

\* ================================================================ chunker
\* the word tokens of a text, structural markers (token 0 of a line) left
\* out: runs without their marker, adjacent fragments of one line merged
RECURSIVE MergeRuns(_)
MergeRuns(t) ==
  IF Len(t) <= 1 THEN t
  ELSE LET a == t[1]
           b == t[2]
       IN  IF a.ln = b.ln /\ b.lo = a.hi + 1
           THEN MergeRuns(<<[a EXCEPT !.hi = b.hi]>> \o SubSeq(t, 3, Len(t)))
           ELSE <<a>> \o MergeRuns(Tail(t))

WordsOf(text) ==
  MergeRuns(SelectSeq([i \in 1..Len(text) |->
                         [ln |-> text[i].ln, lo |-> Max(text[i].lo, 1),
                          hi |-> text[i].hi]],
                      LAMBDA r : r.lo <= r.hi))

IsLeaf(r) == r.granularity \in {"leaf", "leaf_window"}

\* the index of the article_root record that record i descends from
RootOf(i) ==
  CHOOSE j \in 1..i :
    /\ items[j].granularity = "article_root"
    /\ \A k \in (j + 1)..i : items[k].granularity # "article_root"

\* the text a leaf contributes: a window after the first repeats the last
\* OVERLAP_TOK tokens of the window before it, and contributes what follows
OwnText(r) ==
  IF r.granularity = "leaf_window" /\ r.window_seq > 1
  THEN WordSlice(r.text, OVERLAP_TOK, token_count(r.text))
  ELSE r.text

\* the raw text of all leaves emitted for the article whose root is record j,
\* concatenated in emission order
LeafTextOf(j) ==
  Concat([i \in 1..Len(items) |->
            IF i > j /\ IsLeaf(items[i]) /\ RootOf(i) = j
            THEN OwnText(items[i]) ELSE <<>>])

\* C1: no two records emitted for one source file carry the same id
C1_UniqueIds ==
  \A i, j \in 1..Len(items) : i # j => items[i].id # items[j].id

\* the id a record must carry, computed from the file stem and the record's
\* own path fields and window index
IdOfPath(stem, r) ==
  LET article_id == <<<<stem, 0>>, <<"D", r.article_no>>>>
      clause_id == article_id \o
                   <<IF r.clause_no # None THEN <<"K", r.clause_no>>
                     ELSE <<"PRE", 0>>>>
      leaf_id == article_id
                 \o (IF r.clause_no # None THEN <<<<"K", r.clause_no>>>> ELSE <<>>)
                 \o (IF r.point # "" THEN <<<<r.point, 0>>>> ELSE <<>>)
                 \o (IF r.bullet_idx # None THEN <<<<"b", r.bullet_idx>>>> ELSE <<>>)
  IN  CASE r.granularity = "article_root" -> article_id
        [] r.granularity = "clause_node" -> clause_id
        [] r.granularity = "point_node" -> clause_id \o <<<<r.point, 0>>>>
        [] r.granularity = "leaf" -> leaf_id
        [] r.granularity = "leaf_window" -> leaf_id \o <<<<"w", r.window_seq>>>>

C3_Partition ==
  \A j \in 1..Len(items) :
    items[j].granularity = "article_root" =>
      WordsOf(LeafTextOf(j)) = WordsOf(items[j].text)

\* scenario 1: one chapter heading, then one article whose body is exactly
\* two numbered clauses without points, each within the token threshold
Scenario1(d) ==
  /\ Len(d) >= 4
  /\ d[1].kind = "chapter"
  /\ \E a \in 2..Len(d) :
       /\ d[a].kind = "article"
       /\ \A i \in 2..(a - 1) : d[i].kind = "text"
       /\ a + 1 <= Len(d) /\ d[a + 1].kind = "clause"
       /\ \A i \in (a + 1)..Len(d) : d[i].kind \in {"clause", "text"}
       /\ Cardinality({i \in (a + 1)..Len(d) : d[i].kind = "clause"}) = 2
       /\ \A c \in (a + 1)..Len(d) :
            d[c].kind = "clause" =>
              \E e \in c..Len(d) :
                /\ \A i \in (c + 1)..e : d[i].kind # "clause"
                /\ e < Len(d) => d[e + 1].kind = "clause"
                /\ token_count(SubSeq(d, c, e)) <= MAX_TOKENS_LEAF

\* C6: scenario 1 yields exactly five records: the article_root, and per
\* clause one clause_node followed by one leaf
C6_Scenario1 ==
  (nruns >= 1 /\ Scenario1(normalize_text(raw))) =>
    [i \in 1..Len(items) |-> items[i].granularity]
      = <<"article_root", "clause_node", "leaf", "clause_node", "leaf">>

C6_Witness ==
  /\ nruns >= 1
  /\ Scenario1(normalize_text(raw))
  /\ Len(items) = 5

\* ============================================== sliding_windows_by_tokens
\* a text of one or two lines holding a and b words
TwoLineText(a, b) ==
  SelectSeq(<<[ln |-> 1, kind |-> "text", no |-> 0, letter |-> "",
               lo |-> 1, hi |-> a],
              [ln |-> 2, kind |-> "text", no |-> 0, letter |-> "",
               lo |-> 1, hi |-> b]>>,
            LAMBDA r : r.hi >= 1)

InitWin ==
  /\ raw = <<>>
  /\ path = "luatduongbo"
  /\ items = <<>>
  /\ prevItems = <<>>
  /\ nruns = 0
  /\ call = NoCall
  /\ win = NoWin
  /\ tlog = <<>>
  /\ ret = NoRet
  /\ gen = NoGen
  /\ chat = NoChat
  /\ util = NoUtil

\* one call sliding_windows_by_tokens(text, win_tokens, overlap_tokens)
SlidingWindows ==
  /\ ~win.done
  /\ \E a \in 0..MaxTokens, w \in 1..MaxWin, o \in 0..MaxWin :
       \E b \in 0..(MaxTokens - a) :
         win' = [done |-> TRUE, text |-> TwoLineText(a, b),
                 win_tokens |-> w, overlap_tokens |-> o,
                 out |-> sliding_windows_by_tokens(TwoLineText(a, b), w, o)]
  /\ UNCHANGED <<raw, path, items, prevItems, nruns, call, tlog, ret, gen, chat, util>>

NextWin == SlidingWindows

SpecWin == InitWin /\ [][NextWin]_vars

\* the tokens of a text, in order, each <<line, index in the line>>
TokensOf(text) ==
  Concat([i \in 1..Len(text) |->
            [j \in 1..RunLen(text[i]) |-> <<text[i].ln, text[i].lo + j - 1>>]])

Range(f) == {f[x] : x \in DOMAIN f}

\* C4: with O < W and more than W tokens, every token lies in some window,
\* each window is a contiguous run of at most W tokens, and consecutive
\* windows share exactly O tokens (the last pair left out of the statement)
C4_Windows ==
  win.done =>
    LET toks == TokensOf(win.text)
        n == Len(toks)
        W == win.win_tokens
        O == win.overlap_tokens
        wins == [k \in 1..Len(win.out) |-> TokensOf(win.out[k])]
    IN  (O < W /\ n > W) =>
          /\ \A p \in 1..n : \E k \in 1..Len(wins) : toks[p] \in Range(wins[k])
          /\ \A k \in 1..Len(wins) :
               /\ Len(wins[k]) >= 1 /\ Len(wins[k]) <= W
               /\ \E st \in 1..n : wins[k] = SubSeq(toks, st, st + Len(wins[k]) - 1)
          /\ \A k \in 1..(Len(wins) - 2) :
               Cardinality(Range(wins[k]) \cap Range(wins[k + 1])) = O

C4_Witness ==
  /\ win.done
  /\ win.overlap_tokens >= 1
  /\ win.overlap_tokens < win.win_tokens
  /\ token_count(win.text) > win.win_tokens
  /\ Len(win.text) = 2
  /\ Len(win.out) >= 4

\* ================================================================ emit_leaf
LeafTokenCounts == {0, 1, MAX_TOKENS_LEAF, MAX_TOKENS_LEAF + 1, 2001}

\* a unit text of n tokens
UnitText(n) ==
  IF n = 0 THEN <<>>
  ELSE <<[ln |-> 1, kind |-> "text", no |-> 0, letter |-> "",
          lo |-> 1, hi |-> n]>>

InitLeaf ==
  /\ raw = <<>>
  /\ path \in Stems
  /\ items = <<>>
  /\ prevItems = <<>>
  /\ nruns = 0
  /\ call = NoCall
  /\ win = NoWin
  /\ tlog = <<>>
  /\ ret = NoRet
  /\ gen = NoGen
  /\ chat = NoChat
  /\ util = NoUtil

\* one call emit_leaf(items, ...) on the list built so far
EmitLeaf ==
  /\ nruns < MaxCalls
  /\ \E clause_no \in {None, 1}, point_letter \in {"", "a"},
        bullet_idx \in {None, 1}, n \in LeafTokenCounts :
       /\ items' = emit_leaf(items, path, 1, 0, 1, clause_no, point_letter,
                             bullet_idx, UnitText(n), {})
       /\ call' = [made |-> TRUE, article_no |-> 1, clause_no |-> clause_no,
                   point_letter |-> point_letter, bullet_idx |-> bullet_idx,
                   text |-> UnitText(n)]
  /\ prevItems' = items
  /\ nruns' = nruns + 1
  /\ UNCHANGED <<raw, path, win, tlog, ret, gen, chat, util>>

NextLeaf == EmitLeaf

SpecLeaf == InitLeaf /\ [][NextLeaf]_vars

\* C5: emit_leaf appends one 'leaf' record with the base id when the unit
\* has at most MAX_TOKENS_LEAF tokens, and otherwise one 'leaf_window' record
\* per window, ids base_w1..base_wN and window_seq 1..N in order
C5_EmitLeaf ==
  call.made =>
    LET base == BaseId(path, call.article_no, call.clause_no,
                       call.point_letter, call.bullet_idx)
        new == SubSeq(items, Len(prevItems) + 1, Len(items))
        N == Len(sliding_windows_by_tokens(call.text, WIN_TOK, OVERLAP_TOK))
    IN  /\ Len(items) >= Len(prevItems)
        /\ SubSeq(items, 1, Len(prevItems)) = prevItems
        /\ token_count(call.text) <= MAX_TOKENS_LEAF =>
             /\ Len(new) = 1
             /\ new[1].granularity = "leaf"
             /\ new[1].id = base
        /\ token_count(call.text) > MAX_TOKENS_LEAF =>
             /\ Len(new) = N
             /\ N >= 2
             /\ \A i \in 1..Len(new) :
                  /\ new[i].granularity = "leaf_window"
                  /\ new[i].id = Append(base, <<"w", i>>)
                  /\ new[i].window_seq = i
                  /\ new[i].id # base

C5_Witness ==
  /\ call.made
  /\ token_count(call.text) > MAX_TOKENS_LEAF
  /\ prevItems # <<>>
  /\ Len(items) >= Len(prevItems) + 3

\* ============================================================ alpha tuner
\* A query is a sequence of atoms, each a maximal run of one character class:
\*   "kw"    a structural keyword Mục, Điều, Khoản or Điểm (any case)
\*   "kwc"   the structural keyword Chương, which starts with a C
\*   "num"   a run of digits
\*   "rom"   another word starting with one of the letters I V X L C
\*   "unit"  a unit word of NUMERIC_INFO_RE not starting with such a letter
\*           ("km/h" is the unit km, the character / and the word h)
\*   "unitc" a unit word starting with one (cm3, cc, lần)
\*   "word"  any other word
\*   "pct"   the character %
\*   "punct" another character that is neither \w nor whitespace
\*   "sp"    a run of whitespace
\* Weights are in hundredths: 30 is 0.30.
Atoms == {"kw", "kwc", "num", "rom", "unit", "unitc", "word", "pct", "punct",
          "sp"}

\* the atoms made of letters, and those made of \w characters
LetterAtoms == {"kw", "kwc", "rom", "unit", "unitc", "word"}

WordAtoms == LetterAtoms \cup {"num"}

\* runs are maximal: no two whitespace runs, digit runs or letter runs touch
Maximal(q) ==
  \A i \in 1..(Len(q) - 1) :
    /\ q[i] = q[i + 1] => q[i] \notin {"sp", "num"}
    /\ ~(q[i] \in LetterAtoms /\ q[i + 1] \in LetterAtoms)

Queries ==
  {q \in UNION {[1..n -> Atoms] : n \in 0..MaxQueryLen} : Maximal(q)}

BaseAlphas == {0, 30, 50, 55, 75, 80, 100}

\* \b between atom i-1 and atom i (i = Len + 1: the end of the string)
Boundary(q, i) ==
  LET before == i > 1 /\ q[i - 1] \in WordAtoms
      after == i <= Len(q) /\ q[i] \in WordAtoms
  IN  before # after

\* LEGAL_HINT_RE.search(query):  \b(kw)\s+[IVXLC\d]+  with IGNORECASE
LEGAL_HINT_RE(q) ==
  \E i \in 1..Len(q) :
    /\ q[i] \in {"kw", "kwc"}
    /\ Boundary(q, i)
    /\ i + 2 <= Len(q)
    /\ q[i + 1] = "sp"
    /\ q[i + 2] \in {"num", "rom", "unitc", "kwc"}

\* NUMERIC_INFO_RE.search(query):  \b(\d+)\s*(unit)\b  with IGNORECASE
NUMERIC_INFO_RE(q) ==
  \E i \in 1..Len(q) :
    /\ q[i] = "num"
    /\ Boundary(q, i)
    /\ LET j == IF i + 1 <= Len(q) /\ q[i + 1] = "sp" THEN i + 2 ELSE i + 1
       IN  /\ j <= Len(q)
           /\ q[j] \in {"unit", "unitc", "pct"}
           /\ Boundary(q, j + 1)

\* tune_alpha_and_pool with the two tests in the other order
tune_numeric_first(query, base_alpha, k) ==
  IF NUMERIC_INFO_RE(query)
  THEN [alpha |-> Max(40, base_alpha - 15), initial_k |-> Max(12, k * 5)]
  ELSE IF LEGAL_HINT_RE(query)
  THEN [alpha |-> Max(30, base_alpha - 25), initial_k |-> Max(15, k * 6)]
  ELSE [alpha |-> Min(75, base_alpha + 20), initial_k |-> Max(10, k * 4)]

\* tune_alpha_and_pool without the cap of the semantic branch
tune_uncapped(query, base_alpha, k) ==
  IF LEGAL_HINT_RE(query)
  THEN [alpha |-> Max(30, base_alpha - 25), initial_k |-> Max(15, k * 6)]
  ELSE IF NUMERIC_INFO_RE(query)
  THEN [alpha |-> Max(40, base_alpha - 15), initial_k |-> Max(12, k * 5)]
  ELSE [alpha |-> base_alpha + 20, initial_k |-> Max(10, k * 4)]

\* tune_alpha_and_pool lowering the citation weight by 0.15 only
tune_small_step(query, base_alpha, k) ==
  IF LEGAL_HINT_RE(query)
  THEN [alpha |-> Max(30, base_alpha - 15), initial_k |-> Max(15, k * 6)]
  ELSE IF NUMERIC_INFO_RE(query)
  THEN [alpha |-> Max(40, base_alpha - 15), initial_k |-> Max(12, k * 5)]
  ELSE [alpha |-> Min(75, base_alpha + 20), initial_k |-> Max(10, k * 4)]

\* tune_alpha_and_pool keeping alpha in a module-level variable: the weight
\* returned last is the baseline of the next call
tune_sticky(query, base_alpha, k) ==
  LET b == IF tlog # <<>> THEN tlog[Len(tlog)].alpha ELSE base_alpha
  IN  IF LEGAL_HINT_RE(query)
      THEN [alpha |-> Max(30, b - 25), initial_k |-> Max(15, k * 6)]
      ELSE IF NUMERIC_INFO_RE(query)
      THEN [alpha |-> Max(40, b - 15), initial_k |-> Max(12, k * 5)]
      ELSE [alpha |-> Min(75, b + 20), initial_k |-> Max(10, k * 4)]

\* the default branch lowering the weight (sign slip)
tune_default_minus(query, base_alpha, k) ==
  IF LEGAL_HINT_RE(query)
  THEN [alpha |-> Max(30, base_alpha - 25), initial_k |-> Max(15, k * 6)]
  ELSE IF NUMERIC_INFO_RE(query)
  THEN [alpha |-> Max(40, base_alpha - 15), initial_k |-> Max(12, k * 5)]
  ELSE [alpha |-> Min(75, base_alpha - 20), initial_k |-> Max(10, k * 4)]

tune_alpha_and_pool(query, base_alpha, k) ==
  IF LEGAL_HINT_RE(query)
  THEN [alpha |-> Max(30, base_alpha - 25), initial_k |-> Max(15, k * 6)]
  ELSE IF NUMERIC_INFO_RE(query)
  THEN [alpha |-> Max(40, base_alpha - 15), initial_k |-> Max(12, k * 5)]
  ELSE [alpha |-> Min(75, base_alpha + 20), initial_k |-> Max(10, k * 4)]

\* the log entry of one call
TuneCall(query, base_alpha, k) ==
  LET r == tune_alpha_and_pool(query, base_alpha, k)
  IN  [query |-> query, base_alpha |-> base_alpha, k |-> k,
       alpha |-> r.alpha, initial_k |-> r.initial_k]

InitTune ==
  /\ raw = <<>>
  /\ path = "luatduongbo"
  /\ items = <<>>
  /\ prevItems = <<>>
  /\ nruns = 0
  /\ call = NoCall
  /\ win = NoWin
  /\ tlog = <<>>
  /\ ret = NoRet
  /\ gen = NoGen
  /\ chat = NoChat
  /\ util = NoUtil

\* one call tune_alpha_and_pool(query, base_alpha, k), any query
Tune ==
  /\ tlog = <<>>
  /\ \E q \in Queries, b \in BaseAlphas, k \in 1..MaxK :
       tlog' = <<TuneCall(q, b, k)>>
  /\ UNCHANGED <<raw, path, items, prevItems, nruns, call, win, ret, gen, chat, util>>

NextTune == Tune

SpecTune == InitTune /\ [][NextTune]_vars

\* "Điều 15", "22 giờ", "Điều 15 22giờ", a plain question
SampleQueries ==
  {<<"kw", "sp", "num">>, <<"num", "sp", "unit">>,
   <<"kw", "sp", "num", "sp", "num", "unit">>, <<"word", "sp", "word">>}

\* a sequence of calls, one per question asked
TuneAgain ==
  /\ Len(tlog) < MaxLog
  /\ \E q \in SampleQueries, b \in {30, 55}, k \in {1, 5} :
       tlog' = Append(tlog, TuneCall(q, b, k))
  /\ UNCHANGED <<raw, path, items, prevItems, nruns, call, win, ret, gen, chat, util>>

NextTuneLog == TuneAgain

SpecTuneLog == InitTune /\ [][NextTuneLog]_vars

\* C7: the weight lies in [0,1] and the pool size is a positive integer that
\* is at least k
C7_ValidPair ==
  \A i \in 1..Len(tlog) :
    /\ tlog[i].alpha >= 0 /\ tlog[i].alpha <= 100
    /\ tlog[i].initial_k \in Nat
    /\ tlog[i].initial_k >= 1
    /\ tlog[i].initial_k >= tlog[i].k

C7_Witness ==
  /\ tlog # <<>>
  /\ tlog[1].base_alpha = 100
  /\ ~LEGAL_HINT_RE(tlog[1].query) /\ ~NUMERIC_INFO_RE(tlog[1].query)
  /\ tlog[1].k = MaxK

\* C8: the citation rule wins over the number-with-unit rule, which wins
\* over the default; the citation pool is the largest of the three for the
\* same k
C8_Priority ==
  \A i \in 1..Len(tlog) :
    LET e == tlog[i]
        L == LEGAL_HINT_RE(e.query)
        N == NUMERIC_INFO_RE(e.query)
        cite == tune_alpha_and_pool(<<"kw", "sp", "num">>, e.base_alpha, e.k)
        numb == tune_alpha_and_pool(<<"num", "sp", "unit">>, e.base_alpha, e.k)
        plain == tune_alpha_and_pool(<<"word">>, e.base_alpha, e.k)
    IN  /\ L => /\ e.alpha = Max(30, e.base_alpha - 25)
                /\ e.initial_k = Max(15, 6 * e.k)
        /\ (~L /\ N) => /\ e.alpha = Max(40, e.base_alpha - 15)
                        /\ e.initial_k = Max(12, 5 * e.k)
        /\ (~L /\ ~N) => /\ e.alpha = Min(75, e.base_alpha + 20)
                         /\ e.initial_k = Max(10, 4 * e.k)
        /\ cite.initial_k > numb.initial_k
        /\ cite.initial_k > plain.initial_k

C8_Witness ==
  /\ tlog # <<>>
  /\ LEGAL_HINT_RE(tlog[1].query) /\ NUMERIC_INFO_RE(tlog[1].query)
  /\ tlog[1].base_alpha = 55
  /\ tlog[1].k = MaxK

\* C9 as claimed: a citation query gets a weight strictly below the baseline
\* minus 0.2, whatever the baseline
C9_BelowBaseline ==
  \A i \in 1..Len(tlog) :
    LEGAL_HINT_RE(tlog[i].query) => tlog[i].alpha < tlog[i].base_alpha - 20

\* C9 amended: that holds exactly for the baselines above 0.5 (the default
\* 0.55 gives 0.30 < 0.35); from 0.5 down the weight is the floor 0.30, which
\* is not below the baseline minus 0.2
C9_BelowBaselineAbove50 ==
  \A i \in 1..Len(tlog) :
    LEGAL_HINT_RE(tlog[i].query) =>
      /\ tlog[i].base_alpha > 50 => tlog[i].alpha < tlog[i].base_alpha - 20
      /\ tlog[i].base_alpha <= 50 =>
           /\ tlog[i].alpha = 30
           /\ tlog[i].alpha >= tlog[i].base_alpha - 20
      /\ tlog[i].base_alpha = 55 => tlog[i].alpha < 35

C9_Witness ==
  /\ tlog # <<>>
  /\ tlog[1].query = <<"kw", "sp", "num">>
  /\ tlog[1].base_alpha = 55
  /\ tlog[1].alpha = 30

HasMarker(text, kind) == \E i \in 1..Len(text) : IsMarker(text, i, kind)

\* the last record emitted under the node at index i: the records up to the
\* next node of a kind in `stops`
ExtentEnd(i, stops) ==
  IF \E j \in (i + 1)..Len(items) : items[j].granularity \in stops
  THEN (CHOOSE j \in (i + 1)..Len(items) :
          /\ items[j].granularity \in stops
          /\ \A k \in (i + 1)..(j - 1) : items[k].granularity \notin stops) - 1
  ELSE Len(items)

ClauseStops == {"article_root", "clause_node"}

PointStops == {"article_root", "clause_node", "point_node"}

\* C19: leaves are emitted for the terminal units and only for them: a
\* numbered clause without point markers yields leaves of the clause and no
\* point records; a clause with points yields no leaf of its own; a point
\* without bullet markers yields leaves of the point; a point with n bullets
\* yields leaves with bullet_idx 1..n and no leaf of its own; bullet_idx is
\* set on bullet leaves only
C19_TerminalLeaves ==
  /\ \A c \in 1..Len(items) :
       items[c].granularity = "clause_node" =>
         LET e == ExtentEnd(c, ClauseStops)
             body == StripMarker(items[c].text, "clause")
         IN  IF HasMarker(body, "point")
             THEN /\ \A j \in (c + 1)..e :
                       IsLeaf(items[j]) => items[j].point # ""
                  /\ Cardinality({j \in (c + 1)..e :
                                    items[j].granularity = "point_node"})
                       = Len(finditer("point", body))
             ELSE /\ \A j \in (c + 1)..e :
                       /\ IsLeaf(items[j])
                       /\ items[j].clause_no = items[c].clause_no
                       /\ items[j].point = ""
                       /\ items[j].bullet_idx = None
                  /\ items[c].clause_no # None => e > c
  /\ \A p \in 1..Len(items) :
       items[p].granularity = "point_node" =>
         LET e == ExtentEnd(p, PointStops)
             n == Len(finditer("bullet", items[p].text))
         IN  /\ e > p
             /\ \A j \in (p + 1)..e :
                  /\ IsLeaf(items[j])
                  /\ items[j].clause_no = items[p].clause_no
                  /\ items[j].point = items[p].point
             /\ IF n = 0
                THEN \A j \in (p + 1)..e : items[j].bullet_idx = None
                ELSE /\ {items[j].bullet_idx : j \in (p + 1)..e} = 1..n
                     /\ \A j \in (p + 1)..(e - 1) :
                          items[j].bullet_idx <= items[j + 1].bullet_idx
  /\ \A j \in 1..Len(items) :
       items[j].bullet_idx # None =>
         /\ IsLeaf(items[j])
         /\ \E p \in 1..(j - 1) :
              /\ items[p].granularity = "point_node"
              /\ j <= ExtentEnd(p, PointStops)
              /\ HasMarker(items[p].text, "bullet")
  /\ \A j \in 1..Len(items) :
       IsLeaf(items[j]) =>
         \E c \in 1..(j - 1) :
           /\ items[c].granularity = "clause_node"
           /\ j <= ExtentEnd(c, ClauseStops)

\* a point split into two bullets: the point_node is followed by the leaves
\* of bullet 1 and bullet 2
C19_Witness ==
  \E p \in 1..Len(items) :
    /\ items[p].granularity = "point_node"
    /\ p + 2 <= Len(items)
    /\ IsLeaf(items[p + 1]) /\ items[p + 1].bullet_idx = 1
    /\ IsLeaf(items[p + 2]) /\ items[p + 2].bullet_idx = 2

\* ======================================================== the default branch
\* C20 as stated: for a query with neither a legal-citation pattern nor a
\* number-with-unit pattern, the weight is at least the baseline, for every
\* baseline in [0,1]
C20_AtLeastBaseline ==
  \A i \in 1..Len(tlog) :
    (~LEGAL_HINT_RE(tlog[i].query) /\ ~NUMERIC_INFO_RE(tlog[i].query)) =>
      tlog[i].alpha >= tlog[i].base_alpha

\* C20 amended: for such a query the weight is at most 0.75; it is at least
\* the baseline when the baseline is at most 0.75 (above it when the baseline
\* is below 0.75), and it is 0.75, below the baseline, otherwise
C20_AtLeastBaselineUpToCap ==
  \A i \in 1..Len(tlog) :
    (~LEGAL_HINT_RE(tlog[i].query) /\ ~NUMERIC_INFO_RE(tlog[i].query)) =>
      /\ tlog[i].alpha <= 75
      /\ tlog[i].base_alpha <= 75 => tlog[i].alpha >= tlog[i].base_alpha
      /\ tlog[i].base_alpha < 75 => tlog[i].alpha > tlog[i].base_alpha
      /\ tlog[i].base_alpha > 75 => tlog[i].alpha = 75

\* a plain question tuned with the default baseline 0.55
C20_Witness ==
  \E i \in 1..Len(tlog) :
    /\ ~LEGAL_HINT_RE(tlog[i].query) /\ ~NUMERIC_INFO_RE(tlog[i].query)
    /\ tlog[i].base_alpha = 55
    /\ tlog[i].alpha = 75

\* ================================================================ retrieve
\* A string property is "" (also standing for a missing property), " " (only
\* whitespace) or a text without surrounding whitespace.
strip(v) == IF v = " " THEN "" ELSE v

EmptyProps ==
  [law |-> "", chapter |-> "", section |-> "", article_no |-> "",
   article_title |-> "", clause_no |-> "", clause_head |-> "", point |-> "",
   text |-> "", rerank_title |-> "", rerank_body |-> "",
   display_citation |-> "", header |-> ""]

\* the objects a hybrid search returns: a point leaf with every property, a
\* clause leaf whose rerank body is empty, an object with no text span, one
\* whose span is whitespace only, and one with a title span and nothing else
HybridObjects ==
  {[EmptyProps EXCEPT !.law = "L", !.chapter = "Ch", !.article_no = "5",
                      !.article_title = "T", !.clause_no = "1",
                      !.clause_head = "H", !.point = "a", !.text = "X",
                      !.rerank_title = "RT", !.rerank_body = "RB",
                      !.display_citation = "C"],
   [EmptyProps EXCEPT !.article_no = "6", !.clause_no = "2", !.text = "Y",
                      !.rerank_title = "RT", !.header = "Hd"],
   [EmptyProps EXCEPT !.law = "L", !.display_citation = "C"],
   [EmptyProps EXCEPT !.law = "L", !.rerank_title = " ", !.rerank_body = " ",
                      !.text = " "],
   [EmptyProps EXCEPT !.rerank_title = "RT"]}

\* resp.objects or []
HybridResults == UNION {[1..n -> HybridObjects] : n \in 0..MaxObjs}

\* the scores reranker.predict gives
Scores == {0, 1, 2}

\* the k a caller asks for
Ks == {0, 1, 2, 5}

\* the span test made on the title before it is stripped
RerankText_unstripped(p) ==
  LET rr_title == p.rerank_title
      rr_body0 == strip(p.rerank_body)
      rr_body == IF rr_body0 = "" THEN strip(p.text) ELSE rr_body0
  IN  (IF rr_title # "" THEN <<rr_title>> ELSE <<>>)
      \o (IF rr_body # "" THEN <<rr_body>> ELSE <<>>)

\* (rr_title + "\n" + rr_body).strip(), as the sequence of its lines
RerankText(p) ==
  LET rr_title == strip(p.rerank_title)
      rr_body0 == strip(p.rerank_body)
      rr_body == IF rr_body0 = "" THEN strip(p.text) ELSE rr_body0
  IN  (IF rr_title # "" THEN <<rr_title>> ELSE <<>>)
      \o (IF rr_body # "" THEN <<rr_body>> ELSE <<>>)

\* the candidates loop without the `continue` on an empty span
Candidates_unfiltered(objects) ==
  [i \in 1..Len(objects) |->
     [idx |-> i, rerank_text |-> RerankText(objects[i]),
      props |-> objects[i]]]

\* the candidates loop; idx is the position of the object in the result
Candidates(objects) ==
  SelectSeq([i \in 1..Len(objects) |->
               [idx |-> i, rerank_text |-> RerankText(objects[i]),
                props |-> objects[i]]],
            LAMBDA c : c.rerank_text # <<>>)

\* sorted(candidates, key=rerank_score, reverse=True): a stable sort
RECURSIVE InsertByScore(_, _)
InsertByScore(sorted, c) ==
  IF sorted = <<>> THEN <<c>>
  ELSE IF Head(sorted).rerank_score >= c.rerank_score
       THEN <<Head(sorted)>> \o InsertByScore(Tail(sorted), c)
       ELSE <<c>> \o sorted

\* the sort putting a candidate before the earlier ones of equal score
RECURSIVE sorted_unstable(_)
sorted_unstable(cands) ==
  IF cands = <<>> THEN <<>>
  ELSE InsertByScore(sorted_unstable(Tail(cands)), Head(cands))

RECURSIVE sorted_by_score(_)
sorted_by_score(cands) ==
  IF cands = <<>> THEN <<>>
  ELSE InsertByScore(sorted_by_score(SubSeq(cands, 1, Len(cands) - 1)),
                     cands[Len(cands)])

\* s[:k]
Slice(s, k) ==
  IF k >= 0 THEN SubSeq(s, 1, Min(k, Len(s)))
  ELSE SubSeq(s, 1, Max(0, Len(s) + k))

\* the lines of the context chunk of one candidate
ContextLines(p) ==
  LET law == strip(p.law)
      chapter == strip(p.chapter)
      section == strip(p.section)
      article_no == strip(p.article_no)
      article_title == strip(p.article_title)
      clause_no == p.clause_no
      clause_head == strip(p.clause_head)
      point == strip(p.point)
      body_for_ctx == strip(p.text)
  IN  (IF law # "" THEN <<<<law>>>> ELSE <<>>)
      \o (IF chapter # "" THEN <<<<chapter>>>> ELSE <<>>)
      \o (IF section # "" THEN <<<<section>>>> ELSE <<>>)
      \o (IF article_no # "" \/ article_title # ""
          THEN <<<<"Dieu", article_no, article_title>>>> ELSE <<>>)
      \o (IF point # ""
          THEN (IF clause_no # "" /\ clause_head # ""
                THEN <<<<"Khoan", clause_no, clause_head>>>>
                ELSE IF clause_no # "" THEN <<<<"Khoan", clause_no>>>>
                ELSE <<>>)
               \o <<<<"Diem", point>>>>
               \o (IF body_for_ctx # "" THEN <<<<body_for_ctx>>>> ELSE <<>>)
          ELSE (IF clause_no # "" THEN <<<<"Khoan", clause_no>>>> ELSE <<>>)
               \o (IF body_for_ctx # "" THEN <<<<body_for_ctx>>>> ELSE <<>>))

\* the source string of one candidate, as the sequence of its parts ("" is
\* the empty sequence)
SourceOf(p) ==
  LET law == strip(p.law)
      src == IF p.display_citation # "" THEN p.display_citation ELSE p.header
  IN  IF law # "" /\ src # "" THEN <<law, "-", src>>
      ELSE IF src # "" THEN <<src>>
      ELSE IF law # "" THEN <<law>> ELSE <<>>

\* retrieve(question, k, base_alpha), given what the hybrid search returns
\* and the score the reranker gives to each candidate.  context is the
\* sequence of the chunks joined by blank lines ("" is the empty sequence);
\* ctx_idx and src_idx name the object each chunk and each source came from.
retrieve(question, k, base_alpha, objects, scores) ==
  LET tuned == tune_alpha_and_pool(question, base_alpha, k)
      candidates == Candidates(objects)
      base == [done |-> TRUE, question |-> question, k |-> k,
               alpha |-> tuned.alpha, initial_k |-> tuned.initial_k,
               objects |-> objects]
  IN  IF candidates = <<>>
      THEN base @@ [rerank_calls |-> 0, pairs |-> <<>>, scored |-> <<>>,
                    topk |-> <<>>, context |-> <<>>, sources |-> <<>>,
                    ctx_idx |-> <<>>, src_idx |-> <<>>]
      ELSE LET pairs == [i \in 1..Len(candidates) |->
                           <<question, candidates[i].rerank_text>>]
               scored == [i \in 1..Len(candidates) |->
                            candidates[i] @@ [rerank_score |-> scores[i]]]
               topk == Slice(sorted_by_score(scored), k)
               shown == SelectSeq(topk,
                                  LAMBDA c : ContextLines(c.props) # <<>>)
           IN  base @@
               [rerank_calls |-> 1, pairs |-> pairs, scored |-> scored,
                topk |-> topk,
                context |-> [i \in 1..Len(shown) |->
                               ContextLines(shown[i].props)],
                ctx_idx |-> [i \in 1..Len(shown) |-> shown[i].idx],
                sources |-> [i \in 1..Len(topk) |-> SourceOf(topk[i].props)],
                src_idx |-> [i \in 1..Len(topk) |-> topk[i].idx]]

\* "Điều 15" and a plain question
RetrieveQueries == {<<"kw", "sp", "num">>, <<"word", "sp", "word">>}

InitRetrieve ==
  /\ raw = <<>>
  /\ path = "luatduongbo"
  /\ items = <<>>
  /\ prevItems = <<>>
  /\ nruns = 0
  /\ call = NoCall
  /\ win = NoWin
  /\ tlog = <<>>
  /\ ret = NoRet
  /\ gen = NoGen
  /\ chat = NoChat
  /\ util = NoUtil

\* one call retrieve(question, k) with the default base_alpha; the hybrid
\* search returns at most initial_k objects
Retrieve ==
  /\ ~ret.done
  /\ \E q \in RetrieveQueries, k \in Ks, objects \in HybridResults :
       /\ Len(objects) <= tune_alpha_and_pool(q, 55, k).initial_k
       /\ \E scores \in [1..Len(Candidates(objects)) -> Scores] :
            ret' = retrieve(q, k, 55, objects, scores)
  /\ UNCHANGED <<raw, path, items, prevItems, nruns, call, win, tlog, gen, chat, util>>

NextRetrieve == Retrieve

SpecRetrieve == InitRetrieve /\ [][NextRetrieve]_vars

\* the rerank span of an object is empty: no title, no body, and no raw text
\* to fall back on
EmptySpan(p) ==
  /\ strip(p.rerank_title) = ""
  /\ strip(p.rerank_body) = ""
  /\ strip(p.text) = ""

\* the positions of the objects with a non-empty span, in retrieval order
SpanIdx(objects) ==
  SelectSeq([i \in 1..Len(objects) |-> i],
            LAMBDA i : ~EmptySpan(objects[i]))

\* C11: the reranked top-k is made of distinct scored candidates, is sorted
\* by non-increasing score, has length min(k, number of candidates), leaves
\* out only candidates that score no more than every one kept, and orders
\* equal scores by retrieval order (also across the cut)
C11_TopK ==
  (ret.done /\ ret.rerank_calls = 1) =>
    LET topk == ret.topk
        scored == ret.scored
        kept == {topk[i].idx : i \in 1..Len(topk)}
    IN  /\ \A i \in 1..Len(topk) :
             \E j \in 1..Len(scored) : topk[i] = scored[j]
        /\ \A i, j \in 1..Len(topk) : i # j => topk[i].idx # topk[j].idx
        /\ \A i \in 1..(Len(topk) - 1) :
             topk[i].rerank_score >= topk[i + 1].rerank_score
        /\ Len(topk) = Min(ret.k, Len(scored))
        /\ Len(topk) <= ret.k
        /\ \A j \in 1..Len(scored) :
             scored[j].idx \notin kept =>
               \A i \in 1..Len(topk) :
                 /\ topk[i].rerank_score >= scored[j].rerank_score
                 /\ topk[i].rerank_score = scored[j].rerank_score
                      => topk[i].idx < scored[j].idx
        /\ \A i, j \in 1..Len(topk) :
             (i < j /\ topk[i].rerank_score = topk[j].rerank_score)
               => topk[i].idx < topk[j].idx

\* three candidates for k = 2: two kept with equal scores, one left out
C11_Witness ==
  /\ ret.done /\ ret.rerank_calls = 1
  /\ ret.k = 2 /\ Len(ret.scored) = 3 /\ Len(ret.topk) = 2
  /\ ret.topk[1].rerank_score = ret.topk[2].rerank_score
  /\ ret.scored[1].rerank_score < ret.topk[1].rerank_score

\* C12: when the hybrid search returns no object, or only objects with an
\* empty span, retrieve returns ("", []) and the reranker is not invoked
C12_EmptyResult ==
  (ret.done /\ \A i \in 1..Len(ret.objects) : EmptySpan(ret.objects[i])) =>
    /\ ret.context = <<>>
    /\ ret.sources = <<>>
    /\ ret.rerank_calls = 0
    /\ ret.pairs = <<>>

\* two objects returned, one without any span and one with a whitespace span
C12_Witness ==
  /\ ret.done
  /\ Len(ret.objects) = 2
  /\ \A i \in 1..2 : EmptySpan(ret.objects[i])
  /\ ret.objects[1].rerank_title = "" /\ ret.objects[2].rerank_title = " "
  /\ ret.context = <<>> /\ ret.sources = <<>>

\* C18: an object with an empty span is not passed to the reranker and is in
\* neither the context nor the sources; the objects with a non-empty span
\* are passed to the reranker once each, in retrieval order
C18_EmptySpanExcluded ==
  ret.done =>
    LET ne == SpanIdx(ret.objects)
    IN  /\ \A i \in 1..Len(ret.objects) :
             EmptySpan(ret.objects[i]) =>
               /\ \A j \in 1..Len(ret.scored) : ret.scored[j].idx # i
               /\ \A j \in 1..Len(ret.ctx_idx) : ret.ctx_idx[j] # i
               /\ \A j \in 1..Len(ret.src_idx) : ret.src_idx[j] # i
        /\ Len(ret.pairs) = Len(ne)
        /\ Len(ret.scored) = Len(ne)
        /\ \A j \in 1..Len(ne) :
             /\ ret.scored[j].idx = ne[j]
             /\ ret.pairs[j] = <<ret.question, RerankText(ret.objects[ne[j]])>>
        /\ ret.rerank_calls = (IF ne = <<>> THEN 0 ELSE 1)

\* an object with an empty span between two with a span, all within k
C18_Witness ==
  /\ ret.done
  /\ Len(ret.objects) = 3
  /\ ~EmptySpan(ret.objects[1])
  /\ EmptySpan(ret.objects[2])
  /\ ~EmptySpan(ret.objects[3])
  /\ Len(ret.pairs) = 2
  /\ ret.src_idx \in {<<1, 3>>, <<3, 1>>}

\* =============================================================== generator
\* A citation string is a sequence of characters: letters in lower or upper
\* case, " " and "TAB" (the whitespace characters).
Whitespace == {" ", "TAB"}

\* str.lower()
lower(s) == [i \in 1..Len(s) |-> IF s[i] = "A" THEN "a" ELSE s[i]]

\* str.strip() of a character sequence
RECURSIVE lstrip(_)
lstrip(s) ==
  IF s # <<>> /\ Head(s) \in Whitespace THEN lstrip(Tail(s)) ELSE s

RECURSIVE rstrip(_)
rstrip(s) ==
  IF s # <<>> /\ s[Len(s)] \in Whitespace
  THEN rstrip(SubSeq(s, 1, Len(s) - 1)) ELSE s

\* re.sub(r"\s+", " ", s)
RECURSIVE CollapseWs(_)
CollapseWs(s) ==
  IF s = <<>> THEN <<>>
  ELSE IF Head(s) \in Whitespace
       THEN <<" ">> \o CollapseWs(lstrip(s))
       ELSE <<Head(s)>> \o CollapseWs(Tail(s))

\* key = re.sub(r"\s+", " ", s.strip().lower())
SourceKey(s) == CollapseWs(lower(rstrip(lstrip(s))))

RECURSIVE DedupeLoop(_, _, _)
DedupeLoop(sources, seen, out) ==
  IF sources = <<>> THEN out
  ELSE LET key == SourceKey(Head(sources))
       IN  IF key # <<>> /\ key \notin seen
           THEN DedupeLoop(Tail(sources), seen \cup {key},
                           Append(out, Head(sources)))
           ELSE DedupeLoop(Tail(sources), seen, out)

\* _dedupe_sources comparing the strings as they are
dedupe_sources_exact(sources) ==
  SelectSeq([i \in 1..Len(sources) |->
               IF \E j \in 1..(i - 1) : sources[j] = sources[i]
               THEN <<>> ELSE sources[i]],
            LAMBDA x : SourceKey(x) # <<>>)

\* _dedupe_sources(sources)
dedupe_sources(sources) == DedupeLoop(sources, {}, <<>>)

\* "", " ", "a", "A", " a", "a b", "a  b", "A\tb", "b", "ab"
SourceStrings ==
  {<<>>, <<" ">>, <<"a">>, <<"A">>, <<" ", "a">>, <<"a", " ", "b">>,
   <<"a", " ", " ", "b">>, <<"A", "TAB", "b">>, <<"b">>, <<"a", "b">>}

SourceLists == UNION {[1..n -> SourceStrings] : n \in 0..MaxSrcs}

\* A context, a prompt or an answer is a sequence of character runs
\* [src, lo, hi]: the characters lo..hi of the string `src`.
MIN_CONTEXT_CHARS == 300

MAX_CONTEXT_CHARS == 20000

MARKER_CHARS == 35

Chars(src, n) ==
  IF n <= 0 THEN <<>> ELSE <<[src |-> src, lo |-> 1, hi |-> n]>>

\* "\n... (da cat ngan context do qua dai)"
TRUNCATION_MARKER == Chars("marker", MARKER_CHARS)

\* len(s)
RECURSIVE StrLen(_)
StrLen(s) ==
  IF s = <<>> THEN 0 ELSE Head(s).hi - Head(s).lo + 1 + StrLen(Tail(s))

\* s[:n], n >= 0
RECURSIVE Prefix(_, _)
Prefix(s, n) ==
  IF s = <<>> \/ n <= 0 THEN <<>>
  ELSE LET r == Head(s)
           L == r.hi - r.lo + 1
       IN  IF n >= L THEN <<r>> \o Prefix(Tail(s), n - L)
           ELSE <<[r EXCEPT !.hi = r.lo + n - 1]>>

\* _truncate_context cutting from the budget on (< for <=)
truncate_context_lt(ctx, max_chars) ==
  IF StrLen(ctx) < max_chars THEN ctx
  ELSE Prefix(ctx, max_chars) \o TRUNCATION_MARKER

\* _truncate_context(ctx, max_chars)
truncate_context(ctx, max_chars) ==
  IF StrLen(ctx) <= max_chars THEN ctx
  ELSE Prefix(ctx, max_chars) \o TRUNCATION_MARKER

\* the lengths of the contexts tried, and the budgets
CtxLens == {0, 1, 299, 300, 301, 19999, 20000, 20001, 25000}

Budgets == {0, 1, 300, 20000}

\* a context of n characters, of whitespace only or not
Context(n, blank) == Chars(IF blank THEN "ws" ELSE "context", n)

Contexts == {Context(n, b) : n \in CtxLens, b \in BOOLEAN}

\* not s.strip()
IsBlank(s) == \A i \in 1..Len(s) : s[i].src = "ws"

\* ---- the utilities called on their own
InitUtils ==
  /\ raw = <<>>
  /\ path = "luatduongbo"
  /\ items = <<>>
  /\ prevItems = <<>>
  /\ nruns = 0
  /\ call = NoCall
  /\ win = NoWin
  /\ tlog = <<>>
  /\ ret = NoRet
  /\ gen = NoGen
  /\ chat = NoChat
  /\ util = NoUtil

\* _dedupe_sources(sources), on any list first and then on what the call
\* before returned
DedupeSources ==
  \/ /\ util.fn = "none"
     /\ \E sources \in SourceLists :
          util' = [fn |-> "dedupe", n |-> 1, sources |-> sources,
                   out |-> dedupe_sources(sources)]
     /\ UNCHANGED <<raw, path, items, prevItems, nruns, call, win, tlog, ret, gen, chat>>
  \/ /\ util.fn = "dedupe"
     /\ util.n < MaxApply
     /\ util' = [fn |-> "dedupe", n |-> util.n + 1, sources |-> util.out,
                 out |-> dedupe_sources(util.out)]
     /\ UNCHANGED <<raw, path, items, prevItems, nruns, call, win, tlog, ret, gen, chat>>

\* _truncate_context(ctx, max_chars)
TruncateContext ==
  /\ util.fn = "none"
  /\ \E ctx \in Contexts, max_chars \in Budgets :
       util' = [fn |-> "truncate", ctx |-> ctx, max_chars |-> max_chars,
                out |-> truncate_context(ctx, max_chars)]
  /\ UNCHANGED <<raw, path, items, prevItems, nruns, call, win, tlog, ret, gen, chat>>

NextUtils == DedupeSources \/ TruncateContext

SpecUtils == InitUtils /\ [][NextUtils]_vars

\* a is b with some entries left out
RECURSIVE IsSubseq(_, _)
IsSubseq(a, b) ==
  IF a = <<>> THEN TRUE
  ELSE IF b = <<>> THEN FALSE
  ELSE IF Head(a) = Head(b) THEN IsSubseq(Tail(a), Tail(b))
  ELSE IsSubseq(a, Tail(b))

\* two citation strings are equal after trimming, lower-casing and collapsing
\* whitespace runs
SameCitation(x, y) == SourceKey(x) = SourceKey(y)

\* only whitespace, or nothing
BlankCitation(x) == \A i \in 1..Len(x) : x[i] \in Whitespace

\* the first entry of every class of SameCitation, in the order of the list;
\* the class of the blank strings taken or not
FirstOccurrences(sources, blanks) ==
  LET first == SelectSeq([i \in 1..Len(sources) |-> i],
                         LAMBDA i :
                           /\ \A j \in 1..(i - 1) :
                                ~SameCitation(sources[j], sources[i])
                           /\ blanks \/ ~BlankCitation(sources[i]))
  IN  [n \in 1..Len(first) |-> sources[first[n]]]

\* C13 as stated: the result is a sub-sequence of the input without two
\* entries equal after normalisation, it keeps the first occurrence of every
\* class in first-seen order, and a second application changes nothing
C13_Dedupe ==
  util.fn = "dedupe" =>
    /\ IsSubseq(util.out, util.sources)
    /\ \A i, j \in 1..Len(util.out) :
         i # j => ~SameCitation(util.out[i], util.out[j])
    /\ util.out = FirstOccurrences(util.sources, TRUE)
    /\ util.n >= 2 => util.out = util.sources

\* C13 amended: as stated, for every class but that of the blank strings;
\* blank entries are dropped
C13_DedupeNonBlank ==
  util.fn = "dedupe" =>
    /\ IsSubseq(util.out, util.sources)
    /\ \A i, j \in 1..Len(util.out) :
         i # j => ~SameCitation(util.out[i], util.out[j])
    /\ util.out = FirstOccurrences(util.sources, FALSE)
    /\ \A i \in 1..Len(util.out) : ~BlankCitation(util.out[i])
    /\ util.n >= 2 => util.out = util.sources

\* two citations that differ in case and whitespace only, then a third one:
\* the first and the third are kept
C13_Witness ==
  /\ util.fn = "dedupe"
  /\ util.n = 1
  /\ util.sources = <<<<"a", " ", "b">>, <<"A", "TAB", "b">>, <<"b">>>>
  /\ util.out = <<<<"a", " ", "b">>, <<"b">>>>

\* C14: a context within the budget is returned unchanged; a longer one
\* becomes its first max_chars characters followed by the marker; 25,000
\* characters against 20,000 become the first 20,000 and the marker
C14_Truncate ==
  util.fn = "truncate" =>
    LET n == StrLen(util.ctx)
        src == IF IsBlank(util.ctx) THEN "ws" ELSE "context"
    IN  /\ n <= util.max_chars => util.out = util.ctx
        /\ n > util.max_chars =>
             /\ StrLen(util.out) = util.max_chars + MARKER_CHARS
             /\ util.out[Len(util.out)] = [src |-> "marker", lo |-> 1,
                                           hi |-> MARKER_CHARS]
             /\ Len(util.out) = (IF util.max_chars > 0 THEN 2 ELSE 1)
             /\ util.max_chars > 0 =>
                  util.out[1] = [src |-> src, lo |-> 1,
                                 hi |-> util.max_chars]
        /\ (n = 25000 /\ util.max_chars = 20000) =>
             StrLen(util.out) = 20035

\* the 25,000-character context cut to the 20,000 budget
C14_Witness ==
  /\ util.fn = "truncate"
  /\ StrLen(util.ctx) = 25000
  /\ util.max_chars = MAX_CONTEXT_CHARS
  /\ util.out = <<[src |-> "context", lo |-> 1, hi |-> 20000],
                  [src |-> "marker", lo |-> 1, hi |-> MARKER_CHARS]>>

\* ---- generate_answer
\* the fixed answers, and the prefix of the error answer
INSUFFICIENT == Chars("insufficient", 95)

FALLBACK == Chars("fallback", 94)

ERROR_PREFIX == Chars("error", 24)

\* str.strip() of a string of runs
RECURSIVE StripRuns(_)
StripRuns(s) ==
  IF s # <<>> /\ Head(s).src = "ws" THEN StripRuns(Tail(s))
  ELSE IF s # <<>> /\ s[Len(s)].src = "ws"
  THEN StripRuns(SubSeq(s, 1, Len(s) - 1))
  ELSE s

\* the citations a retrieve call returns: "", "a", "A", "b"
CitedStrings == {<<>>, <<"a">>, <<"A">>, <<"b">>}

CitedLists == UNION {[1..n -> CitedStrings] : n \in 0..MaxSrcs}

\* retrieve(question, k=k) raises, or returns (context, sources)
RetrieveOutcomes ==
  {[raised |-> TRUE]}
  \cup {[raised |-> FALSE, context |-> c, sources |-> srcs] :
          c \in Contexts, srcs \in CitedLists}

\* model.generate_content(prompt) raises with a message (str(e) may be
\* empty), or returns a response whose text is None (the empty string here),
\* empty, whitespace, or a text with or without whitespace around it
LlmOutcomes ==
  {[kind |-> "raises", msg |-> Chars("exc", n)] : n \in {0, 5}}
  \cup {[kind |-> "returns", text |-> t] :
          t \in {<<>>, Chars("ws", 2), Chars("llm", 10),
                 Chars("ws", 1) \o Chars("llm", 10) \o Chars("ws", 1)}}

NoLlm == [kind |-> "none"]

\* generate_answer testing the length only
generate_answer_no_blank_test(question, k, base_alpha, retrieved, llm) ==
  LET base == [done |-> TRUE, question |-> question, k |-> k,
               base_alpha |-> base_alpha,
               retrieve_call |-> [question |-> question, k |-> k],
               retrieved |-> retrieved]
  IN  IF retrieved.raised
      THEN base @@ [raised |-> TRUE, llm_calls |-> 0, llm |-> NoLlm,
                    prompt_context |-> <<>>, answer |-> <<>>, cites |-> <<>>]
      ELSE IF StrLen(retrieved.context) < MIN_CONTEXT_CHARS
      THEN base @@ [raised |-> FALSE, llm_calls |-> 0, llm |-> NoLlm,
                    prompt_context |-> <<>>, answer |-> INSUFFICIENT,
                    cites |-> <<>>]
      ELSE LET truncated_context ==
                 truncate_context(retrieved.context, MAX_CONTEXT_CHARS)
               sources == dedupe_sources(retrieved.sources)
               text == IF llm.kind = "raises" THEN ERROR_PREFIX \o llm.msg
                       ELSE LET t == StripRuns(llm.text)
                            IN  IF t = <<>> THEN FALLBACK ELSE t
           IN  base @@ [raised |-> FALSE, llm_calls |-> 1, llm |-> llm,
                        prompt_context |-> StripRuns(truncated_context),
                        answer |-> text, cites |-> sources]

\* generate_answer without the fallback for an empty reply
generate_answer_no_fallback(question, k, base_alpha, retrieved, llm) ==
  LET base == [done |-> TRUE, question |-> question, k |-> k,
               base_alpha |-> base_alpha,
               retrieve_call |-> [question |-> question, k |-> k],
               retrieved |-> retrieved]
  IN  IF retrieved.raised
      THEN base @@ [raised |-> TRUE, llm_calls |-> 0, llm |-> NoLlm,
                    prompt_context |-> <<>>, answer |-> <<>>, cites |-> <<>>]
      ELSE IF IsBlank(retrieved.context)
              \/ StrLen(retrieved.context) < MIN_CONTEXT_CHARS
      THEN base @@ [raised |-> FALSE, llm_calls |-> 0, llm |-> NoLlm,
                    prompt_context |-> <<>>, answer |-> INSUFFICIENT,
                    cites |-> <<>>]
      ELSE LET truncated_context ==
                 truncate_context(retrieved.context, MAX_CONTEXT_CHARS)
               sources == dedupe_sources(retrieved.sources)
               text == IF llm.kind = "raises" THEN ERROR_PREFIX \o llm.msg
                       ELSE LET t == StripRuns(llm.text)
                            IN  IF t = <<>> THEN t ELSE t
           IN  base @@ [raised |-> FALSE, llm_calls |-> 1, llm |-> llm,
                        prompt_context |-> StripRuns(truncated_context),
                        answer |-> text, cites |-> sources]

\* generate_answer(question, k, base_alpha), given the outcome of retrieve
\* and of the LLM call
generate_answer(question, k, base_alpha, retrieved, llm) ==
  LET base == [done |-> TRUE, question |-> question, k |-> k,
               base_alpha |-> base_alpha,
               retrieve_call |-> [question |-> question, k |-> k],
               retrieved |-> retrieved]
  IN  IF retrieved.raised
      THEN base @@ [raised |-> TRUE, llm_calls |-> 0, llm |-> NoLlm,
                    prompt_context |-> <<>>, answer |-> <<>>, cites |-> <<>>]
      ELSE IF IsBlank(retrieved.context)
              \/ StrLen(retrieved.context) < MIN_CONTEXT_CHARS
      THEN base @@ [raised |-> FALSE, llm_calls |-> 0, llm |-> NoLlm,
                    prompt_context |-> <<>>, answer |-> INSUFFICIENT,
                    cites |-> <<>>]
      ELSE LET truncated_context ==
                 truncate_context(retrieved.context, MAX_CONTEXT_CHARS)
               sources == dedupe_sources(retrieved.sources)
               text == IF llm.kind = "raises" THEN ERROR_PREFIX \o llm.msg
                       ELSE LET t == StripRuns(llm.text)
                            IN  IF t = <<>> THEN FALLBACK ELSE t
           IN  base @@ [raised |-> FALSE, llm_calls |-> 1, llm |-> llm,
                        prompt_context |-> StripRuns(truncated_context),
                        answer |-> text, cites |-> sources]

InitGenerate ==
  /\ raw = <<>>
  /\ path = "luatduongbo"
  /\ items = <<>>
  /\ prevItems = <<>>
  /\ nruns = 0
  /\ call = NoCall
  /\ win = NoWin
  /\ tlog = <<>>
  /\ ret = NoRet
  /\ gen = NoGen
  /\ chat = NoChat
  /\ util = NoUtil

\* one call generate_answer(question, k=5, base_alpha)
GenerateAnswer ==
  /\ ~gen.done
  /\ \E q \in RetrieveQueries, b \in {30, 55},
        retrieved \in RetrieveOutcomes, llm \in LlmOutcomes :
       gen' = generate_answer(q, 5, b, retrieved, llm)
  /\ UNCHANGED <<raw, path, items, prevItems, nruns, call, win, tlog, ret, chat, util>>

NextGenerate == GenerateAnswer

SpecGenerate == InitGenerate /\ [][NextGenerate]_vars

\* the context is empty, whitespace only, or shorter than 300 characters
Insufficient(context) ==
  \/ context = <<>>
  \/ \A i \in 1..Len(context) : context[i].src = "ws"
  \/ StrLen(context) < 300

\* C15: when the retrieved context is empty, whitespace only or shorter than
\* 300 characters, the answer is the fixed "insufficient information" text,
\* the citation list is empty and the LLM is not called
C15_ShortCircuit ==
  (gen.done /\ ~gen.raised /\ Insufficient(gen.retrieved.context)) =>
    /\ gen.answer = INSUFFICIENT
    /\ gen.cites = <<>>
    /\ gen.llm_calls = 0

\* a whitespace-only context of 300 characters, retrieved with citations
C15_Witness ==
  /\ gen.done /\ ~gen.raised
  /\ gen.retrieved.context = Context(300, TRUE)
  /\ gen.retrieved.sources # <<>>
  /\ gen.answer = INSUFFICIENT

\* C16: with a sufficient context the LLM is called exactly once; when the
\* call raises the answer is the error string and the citations are the
\* deduplicated ones; an empty or whitespace-only reply is replaced by the
\* fallback string; the answer text is never empty
C16_GenerationOutcome ==
  (gen.done /\ ~gen.raised) =>
    /\ StrLen(gen.answer) > 0
    /\ ~Insufficient(gen.retrieved.context) =>
         /\ gen.llm_calls = 1
         /\ gen.cites = FirstOccurrences(gen.retrieved.sources, FALSE)
         /\ gen.llm.kind = "raises" =>
              /\ SubSeq(gen.answer, 1, 1) = ERROR_PREFIX
              /\ Tail(gen.answer) = gen.llm.msg
         /\ (gen.llm.kind = "returns"
             /\ \A i \in 1..Len(gen.llm.text) : gen.llm.text[i].src = "ws")
              => gen.answer = FALLBACK
         /\ (gen.llm.kind = "returns"
             /\ \E i \in 1..Len(gen.llm.text) : gen.llm.text[i].src = "llm")
              => gen.answer = Chars("llm", 10)

\* the LLM call raises on a sufficient context retrieved with a repeated
\* citation
C16_Witness ==
  /\ gen.done /\ ~gen.raised
  /\ gen.llm_calls = 1
  /\ gen.llm.kind = "raises"
  /\ gen.retrieved.sources = <<<<"a">>, <<"A">>, <<"b">>>>
  /\ gen.cites = <<<<"a">>, <<"b">>>>

\* ============================================================ chat front end
\* A message is [role, content], an answer has sources and metrics as well
\* (of the metrics, the chunk count; the other three are wall-clock times).
\* chat.last tells which handler ran last and how it went.
FAILURE_PREFIX == Chars("failure", 26)

\* str(e) of the exception a failing retrieve raises
RETRIEVE_ERROR == Chars("exc", 5)

\* the questions typed, and the sample questions of the welcome screen
TypedQuestions == RetrieveQueries

SampleQuestionTexts == {<<"word">>, <<"word", "sp", "word", "sp", "word">>}

\* what retrieve returns to the chat handler: it raises, or returns an empty
\* context, or a sufficient one with a repeated citation
ChatRetrieveOutcomes ==
  {[raised |-> TRUE],
   [raised |-> FALSE, context |-> <<>>, sources |-> <<>>],
   [raised |-> FALSE, context |-> Context(300, FALSE),
    sources |-> <<<<"a">>, <<"A">>>>]}

ChatLlmOutcomes ==
  {[kind |-> "raises", msg |-> Chars("exc", 5)],
   [kind |-> "returns", text |-> <<>>],
   [kind |-> "returns", text |-> Chars("llm", 10)]}

\* the chat handler appending nothing when the try block raises
chat_input_silent(st, user_input, r1, r2, llm) ==
  LET user == [role |-> "user", content |-> user_input]
      failed(e, gcalls) ==
        [messages |-> Append(st.messages, user),
         show_welcome |-> FALSE,
         last |-> [handler |-> "chat_input", raised |-> TRUE,
                   retrieve_calls |-> 1, generate_calls |-> gcalls]]
  IN  IF r1.raised THEN failed(RETRIEVE_ERROR, 0)
      ELSE LET g == generate_answer(user_input, r1.context, r1.sources,
                                    r2, llm)
           IN  IF g.raised THEN failed(RETRIEVE_ERROR, 1)
               ELSE [messages |->
                       st.messages \o
                       <<user,
                         [role |-> "assistant", content |-> g.answer,
                          sources |-> g.cites,
                          metrics |-> [chunks |-> Len(g.cites)]]>>,
                     show_welcome |-> FALSE,
                     last |-> [handler |-> "chat_input", raised |-> FALSE,
                               retrieve_calls |-> 1, generate_calls |-> 1]]

\* the body of `if user_input:`; r1 is the outcome of the handler's retrieve
\* call, r2 that of the retrieve call made inside generate_answer, which is
\* called as generate_answer(user_input, context, sources)
chat_input(st, user_input, r1, r2, llm) ==
  LET user == [role |-> "user", content |-> user_input]
      failed(e, gcalls) ==
        [messages |-> st.messages \o <<user, [role |-> "assistant", content |-> FAILURE_PREFIX \o e]>>,
         show_welcome |-> FALSE,
         last |-> [handler |-> "chat_input", raised |-> TRUE,
                   retrieve_calls |-> 1, generate_calls |-> gcalls]]
  IN  IF r1.raised THEN failed(RETRIEVE_ERROR, 0)
      ELSE LET g == generate_answer(user_input, r1.context, r1.sources,
                                    r2, llm)
           IN  IF g.raised THEN failed(RETRIEVE_ERROR, 1)
               ELSE [messages |->
                       st.messages \o
                       <<user,
                         [role |-> "assistant", content |-> g.answer,
                          sources |-> g.cites,
                          metrics |-> [chunks |-> Len(g.cites)]]>>,
                     show_welcome |-> FALSE,
                     last |-> [handler |-> "chat_input", raised |-> FALSE,
                               retrieve_calls |-> 1, generate_calls |-> 1]]

InitChat ==
  /\ raw = <<>>
  /\ path = "luatduongbo"
  /\ items = <<>>
  /\ prevItems = <<>>
  /\ nruns = 0
  /\ call = NoCall
  /\ win = NoWin
  /\ tlog = <<>>
  /\ ret = NoRet
  /\ gen = NoGen
  /\ chat = NoChat
  /\ util = NoUtil

\* a question typed in the chat input
ChatInput ==
  /\ Len(chat.messages) + 2 <= MaxMsgs
  /\ \E user_input \in TypedQuestions, r1 \in ChatRetrieveOutcomes,
        r2 \in ChatRetrieveOutcomes, llm \in ChatLlmOutcomes :
       chat' = chat_input(chat, user_input, r1, r2, llm)
  /\ UNCHANGED <<raw, path, items, prevItems, nruns, call, win, tlog, ret, gen, util>>

\* a sample question button of the welcome screen
SampleQuestion ==
  /\ chat.show_welcome
  /\ Len(chat.messages) = 0
  /\ \E question \in SampleQuestionTexts :
       chat' = [messages |->
                  Append(chat.messages,
                         [role |-> "user", content |-> question]),
                show_welcome |-> FALSE,
                last |-> [handler |-> "sample_question"]]
  /\ UNCHANGED <<raw, path, items, prevItems, nruns, call, win, tlog, ret, gen, util>>

\* the button that clears the conversation
ClearChat ==
  /\ chat' = [messages |-> <<>>, show_welcome |-> TRUE,
              last |-> [handler |-> "clear"]]
  /\ UNCHANGED <<raw, path, items, prevItems, nruns, call, win, tlog, ret, gen, util>>

NextChat == ChatInput \/ SampleQuestion \/ ClearChat

SpecChat == InitChat /\ [][NextChat]_vars

\* C17: when retrieval or generation raises while a typed question is
\* handled, the history grows by the user message followed by exactly one
\* assistant message that carries a failure text and neither sources nor
\* metrics, and retrieval and generation are each tried at most once
C17_FailureMessage ==
  [][(chat'.last.handler = "chat_input" /\ chat'.last.raised) =>
       LET n == Len(chat.messages)
           ms == chat'.messages
       IN  /\ Len(ms) = n + 2
           /\ SubSeq(ms, 1, n) = chat.messages
           /\ ms[n + 1].role = "user"
           /\ DOMAIN ms[n + 1] = {"role", "content"}
           /\ ms[n + 1].content \in TypedQuestions
           /\ ms[n + 2].role = "assistant"
           /\ DOMAIN ms[n + 2] = {"role", "content"}
           /\ SubSeq(ms[n + 2].content, 1, 1) = FAILURE_PREFIX
           /\ chat'.last.retrieve_calls = 1
           /\ chat'.last.generate_calls <= 1]_vars

\* a question answered, then a question whose handling raised inside
\* generate_answer
C17_Witness ==
  /\ chat.last.handler = "chat_input"
  /\ chat.last.raised
  /\ chat.last.generate_calls = 1
  /\ Len(chat.messages) = 4
  /\ DOMAIN chat.messages[2] = {"role", "content", "sources", "metrics"}
  /\ DOMAIN chat.messages[4] = {"role", "content"}

\* ===================================================== context and sources
\* C21: the sources returned by retrieve are parallel to the context: one
\* non-empty citation per context chunk, the i-th source being the citation
\* of the candidate the i-th chunk renders, in the order of the reranked
\* top-k
C21_ParallelSources ==
  ret.done =>
    /\ Len(ret.sources) = Len(ret.context)
    /\ ret.src_idx = ret.ctx_idx
    /\ \A i \in 1..Len(ret.sources) : ret.sources[i] # <<>>
    /\ \A i \in 1..Len(ret.src_idx) :
         /\ i <= Len(ret.topk)
         /\ ret.src_idx[i] = ret.topk[i].idx
         /\ ret.sources[i] = SourceOf(ret.objects[ret.src_idx[i]])

\* ============================================================== embed_text
\* documents with bare markers: a clause, point or bullet marker may stand
\* alone on its line ("1.", "a)", "-"), an article may have no body
BareLines ==
       {[kind |-> "blank", no |-> 0, letter |-> "", nw |-> 0]}
  \cup {[kind |-> "article", no |-> 1, letter |-> "", nw |-> 1]}
  \cup {[kind |-> "clause", no |-> 1, letter |-> "", nw |-> w] : w \in 0..1}
  \cup {[kind |-> "point", no |-> 0, letter |-> "a", nw |-> w] : w \in 0..1}
  \cup {[kind |-> "bullet", no |-> 0, letter |-> "", nw |-> w] : w \in 0..1}
  \cup {[kind |-> "text", no |-> 0, letter |-> "", nw |-> w] : w \in {1, LongLine}}

BareDocs == UNION {[1..n -> BareLines] : n \in 0..MaxLines}

InitBare ==
  /\ raw \in BareDocs
  /\ path = "luatduongbo"
  /\ items = <<>>
  /\ prevItems = <<>>
  /\ nruns = 0
  /\ call = NoCall
  /\ win = NoWin
  /\ tlog = <<>>
  /\ ret = NoRet
  /\ gen = NoGen
  /\ chat = NoChat
  /\ util = NoUtil

NextBare == ProcessOne

SpecBare == InitBare /\ [][NextBare]_vars

\* a text is whitespace-trimmed and non-empty: it has a line, and none of
\* its lines is empty (an empty first or last line is surrounding
\* whitespace)
TrimmedNonEmpty(text) ==
  /\ text # <<>>
  /\ \A i \in 1..Len(text) : text[i].lo <= text[i].hi
  /\ token_count(text) >= 1

\* C22: every leaf and leaf_window record has a non-empty, whitespace-trimmed
\* embed_text equal to its text, and every article_root, clause_node and
\* point_node record has an empty embed_text
C22_EmbedText ==
  \A i \in 1..Len(items) :
    /\ IsLeaf(items[i]) =>
         /\ items[i].embed_text = items[i].text
         /\ TrimmedNonEmpty(items[i].embed_text)
    /\ ~IsLeaf(items[i]) =>
         /\ items[i].granularity \in {"article_root", "clause_node", "point_node"}
         /\ items[i].embed_text = <<>>

\* a point whose marker stands alone yields a leaf holding the marker only,
\* next to an article without a body, which yields nodes with an empty text
\* and no leaf
C22_Witness ==
  /\ nruns >= 1
  /\ \E i \in 1..Len(items) :
       /\ items[i].granularity = "leaf"
       /\ items[i].point = "a"
       /\ token_count(items[i].text) = 1
       /\ items[i].text[1].lo = 0
  /\ \E i \in 1..Len(items) :
       /\ items[i].granularity = "clause_node"
       /\ items[i].text = <<>>
       /\ (i = Len(items) \/ items[i + 1].granularity = "article_root")

\* ========================================================= answered once
\* C23: every user message of the session history, typed or added by a
\* sample-question button, is followed by exactly one assistant message
\* before the next user message: no user message is directly followed by
\* another user message, and no assistant message by another assistant
\* message (a cleared session has an empty history)
C23_AnsweredOnce ==
  \A i \in 1..(Len(chat.messages) - 1) :
    chat.messages[i].role # chat.messages[i + 1].role

\* ==================================================== base_alpha forwarding
\* the default of retrieve's base_alpha parameter, in hundredths
DEFAULT_BASE_ALPHA == 55

\* the baseline retrieve hands to tune_alpha_and_pool for a call: the
\* base_alpha argument when the call passes one, else the default
TunerBaseline(c) ==
  IF "base_alpha" \in DOMAIN c THEN c.base_alpha ELSE DEFAULT_BASE_ALPHA

\* C24: generate_answer(question, k, base_alpha) passes k and base_alpha on
\* to retrieve, so the tuner runs with the caller's base_alpha and the blend
\* weight is the one derived from it
C24_ForwardsBaseAlpha ==
  gen.done =>
    /\ gen.retrieve_call.question = gen.question
    /\ gen.retrieve_call.k = gen.k
    /\ TunerBaseline(gen.retrieve_call) = gen.base_alpha
    /\ tune_alpha_and_pool(gen.question, TunerBaseline(gen.retrieve_call),
                           gen.k).alpha
         = tune_alpha_and_pool(gen.question, gen.base_alpha, gen.k).alpha

\* ========================================================== article roots
\* the article heading lines of the normalized document that lie at or after
\* its first chapter heading (all of them when it has no chapter heading)
ArticleHeads(doc) ==
  LET ms == finditer("chapter", doc)
      start == IF ms # <<>> THEN ms[1] ELSE 1
  IN  SelectSeq([i \in 1..Len(doc) |-> i],
                LAMBDA i : i >= start /\ IsMarker(doc, i, "article"))

\* C25: every article heading at or after the first chapter heading yields
\* exactly one article_root record, in document order, holding the number of
\* the heading and the lines that follow it, also when the article lies
\* between a chapter heading and that chapter's first section heading; in a
\* document without a chapter heading the roots have an empty chapter label
C25_EveryArticle ==
  nruns >= 1 =>
    LET doc == normalize_text(raw)
        heads == ArticleHeads(doc)
        roots == SelectSeq(items, LAMBDA r : r.granularity = "article_root")
    IN  /\ Len(roots) = Len(heads)
        /\ \A i \in 1..Min(Len(roots), Len(heads)) :
             /\ roots[i].article_no = doc[heads[i]].no
             /\ roots[i].text # <<>> => roots[i].text[1].ln = heads[i] + 1
             /\ finditer("chapter", doc) = <<>> => roots[i].chapter = 0

====
